---- MODULE Spec2Model ----
(***************************************************************************)
(* Model of generate_readme.py: the GraphQL request layer, the two         *)
(* fetchers, the aggregator, the renderer and main's README splice.        *)
(*                                                                         *)
(* Conventions                                                             *)
(*   - Python None is the empty tuple None; a present value x is <<x>>.    *)
(*   - A text is a sequence of tokens.  A token is a character, except     *)
(*     that each fixed literal of the program (a sentinel marker, a        *)
(*     heading, a table rule) is one token.                                *)
(*   - An ISO-8601 timestamp string is [t |-> seconds, z |-> "Z"]; a naive *)
(*     datetime is the integer number of seconds.                          *)
(*   - An insertion-ordered dict is a sequence of records carrying a key.  *)
(***************************************************************************)
EXTENDS Integers, Sequences, FiniteSets, TLC

VARIABLES
    pc,                 \* position of main
    username, token,    \* os.getenv results
    readme,             \* README.md: None when the file does not exist, else <<text>>
    server_pages,       \* the search result pages the API holds (lists of nodes)
    server_commits,     \* commitContributionsByRepository as the API holds it
    stars,              \* star count of every repository (the query never asks for it)
    attempt,            \* loop variable of make_graphql_request
    requests,           \* HTTP requests posted by the current call of make_graphql_request
    response,           \* last response received, None before the first
    wait_time,          \* argument of the last time.sleep of the current call, 0 if none
    outcome,            \* how the last call of make_graphql_request ended
    after,              \* variables["after"] of the current search request
    after_sent,         \* the "after" values of all search requests, in order
    data,               \* payload returned by make_graphql_request
    all_prs, cursor, has_next_page,     \* locals of fetch_merged_prs
    repos_with_commits, \* result of fetch_repositories_with_commits
    repo_data,          \* result of filter_and_group_contributions
    contribution_content,   \* result of generate_readme
    runs,               \* completed runs of main
    start_readme,       \* README.md when the current run of main started
    prev_readme         \* README.md as the previous run of main left it

vars == <<pc, username, token, readme, server_pages, server_commits, stars,
          attempt, requests, response, wait_time, outcome, after, after_sent,
          data, all_prs, cursor, has_next_page, repos_with_commits, repo_data,
          contribution_content, runs, start_readme, prev_readme>>

(***************************************************************************)
(* Bounds of the model                                                     *)
(***************************************************************************)
MaxPages == 2           \* search result pages held by the server
MaxPRs == 2             \* PRs handed to the aggregator
MaxCommitRepos == 2     \* entries of commitContributionsByRepository
MaxReadmeLen == 2       \* tokens of a README that the program did not write
MaxRuns == 2            \* consecutive runs of main on the same fetch results

(***************************************************************************)
(* Python helpers                                                          *)
(***************************************************************************)
None == <<>>

Some(x) == <<x>>

Max(a, b) == IF a >= b THEN a ELSE b

RECURSIVE Pow2(_)
Pow2(n) == IF n = 0 THEN 1 ELSE 2 * Pow2(n - 1)

RECURSIVE SeqsUpTo(_, _)
SeqsUpTo(S, n) ==
    IF n = 0 THEN {<<>>}
    ELSE LET shorter == SeqsUpTo(S, n - 1)
         IN  shorter \cup {Append(s, x) : s \in {t \in shorter : Len(t) = n - 1}, x \in S}

RECURSIVE Concat(_)
Concat(ss) == IF ss = <<>> THEN <<>> ELSE Head(ss) \o Concat(Tail(ss))

\* "sep".join(lines)
RECURSIVE Join(_, _)
Join(lines, sep) ==
    IF lines = <<>> THEN <<>>
    ELSE IF Len(lines) = 1 THEN lines[1]
    ELSE lines[1] \o sep \o Join(Tail(lines), sep)

\* list.sort(key=..., reverse=True) and sorted(..., reverse=True) on a list
\* decorated as [k |-> key, v |-> element]: stable, so elements with equal
\* keys keep their original relative order.
RECURSIVE InsertDesc(_, _)
InsertDesc(sorted, x) ==
    IF sorted = <<>> THEN <<x>>
    ELSE IF Head(sorted).k >= x.k
         THEN <<Head(sorted)>> \o InsertDesc(Tail(sorted), x)
         ELSE <<x>> \o sorted

RECURSIVE SortDesc(_)
SortDesc(s) ==
    IF s = <<>> THEN <<>>
    ELSE InsertDesc(SortDesc(SubSeq(s, 1, Len(s) - 1)), s[Len(s)])

(***************************************************************************)
(* make_graphql_request                                                    *)
(***************************************************************************)
max_retries == 3

retry_delay == 1

RATE_LIMIT_LOW == 10

HTTP_FORBIDDEN == 403

\* requests.Response.raise_for_status raises for 4xx and 5xx
HTTP_ERROR_MIN == 400

Statuses == {200, 403, 404, 500}

\* values of the X-RateLimit-Remaining header (absent: None)
RemainingValues == {0, 9, 10}

\* values of the X-RateLimit-Reset header and of the clock, in seconds
ResetValues == {0, 5}

ClockValues == {3}

\* a response: its status, its two rate-limit headers, and whether its JSON
\* body (read only when the status is a success) has an "errors" member
Responses ==
    UNION { [status : {s},
             remaining : {None} \cup {Some(v) : v \in RemainingValues},
             reset : {None} \cup {Some(v) : v \in ResetValues},
             errors : IF s < HTTP_ERROR_MIN THEN BOOLEAN ELSE {FALSE}] : s \in Statuses }

\* "if rate_limit_remaining:" then "if remaining < 10:"; a header that is
\* present is a non-empty string, "0" included
RateLimitLow(r) == r.remaining # None /\ r.remaining[1] < RATE_LIMIT_LOW

\* max(reset_time - now, 0) + 1
ResetWait(r, now) == Max(r.reset[1] - now, 0) + 1

\* retry_delay * (2 ** attempt)
BackoffWait(n) == retry_delay * Pow2(n)

\* mutant: only 5xx statuses raise
RaisesForServerErrors(r) == r.status >= 500

RaisesForStatus(r) == r.status >= HTTP_ERROR_MIN

InRequest == pc \in {"prs_request", "commits_request"}

RequestFrame ==
    UNCHANGED <<username, token, readme, server_pages, server_commits, stars,
                after, after_sent, all_prs, cursor, has_next_page,
                repos_with_commits, repo_data, contribution_content, runs,
                start_readme, prev_readme>>

\* requests.post: one more request, one more response
Post(r) ==
    /\ InRequest
    /\ requests' = requests + 1
    /\ response' = Some(r)

\* mutant: the loop runs once more than max_retries
SleepAndContinueOnceMore(w) ==
    /\ wait_time' = w
    /\ attempt' = attempt + 1
    /\ IF attempt + 1 < max_retries + 1
       THEN /\ pc' = pc
            /\ outcome' = outcome
       ELSE /\ pc' = "raised"
            /\ outcome' = "MaxRetries"
    /\ data' = data

\* mutant: a wait retries the request without moving to the next attempt
SleepAndRetry(w) ==
    /\ wait_time' = w
    /\ UNCHANGED <<attempt, pc, outcome, data>>

\* time.sleep(w); continue.  The for loop moves to the next attempt, and
\* falls through to the final raise when range(max_retries) is used up.
SleepAndContinue(w) ==
    /\ wait_time' = w
    /\ attempt' = attempt + 1
    /\ IF attempt + 1 < max_retries
       THEN /\ pc' = pc
            /\ outcome' = outcome
       ELSE /\ pc' = "raised"
            /\ outcome' = "MaxRetries"
    /\ data' = data

Raise(kind) ==
    /\ pc' = "raised"
    /\ outcome' = kind
    /\ UNCHANGED <<attempt, wait_time, data>>

\* lines 40-49: rate limit low, reset time known
RateLimitWaitReset ==
    \E r \in Responses, now \in ClockValues :
        /\ Post(r)
        /\ RateLimitLow(r)
        /\ r.reset # None
        /\ ResetWait(r, now) > 0
        /\ SleepAndContinue(ResetWait(r, now))
        /\ RequestFrame

\* lines 50-55: rate limit low, no reset time: exponential backoff
RateLimitBackoff ==
    \E r \in Responses :
        /\ Post(r)
        /\ RateLimitLow(r)
        /\ r.reset = None
        /\ SleepAndContinue(BackoffWait(attempt))
        /\ RequestFrame

\* the rate-limit block neither slept nor continued
PastRateLimitCheck(r, now) ==
    \/ ~RateLimitLow(r)
    \/ /\ r.reset # None
       /\ ~(ResetWait(r, now) > 0)

\* lines 58-64: 403 with a reset time
ForbiddenWait ==
    \E r \in Responses, now \in ClockValues :
        /\ Post(r)
        /\ PastRateLimitCheck(r, now)
        /\ r.status = HTTP_FORBIDDEN
        /\ r.reset # None
        /\ SleepAndContinue(ResetWait(r, now))
        /\ RequestFrame

\* lines 65-68: raise_for_status raises (403 without reset time included)
HttpError ==
    \E r \in Responses, now \in ClockValues :
        /\ Post(r)
        /\ PastRateLimitCheck(r, now)
        /\ ~(r.status = HTTP_FORBIDDEN /\ r.reset # None)
        /\ RaisesForStatus(r)
        /\ Raise("HTTPError")
        /\ RequestFrame

\* lines 69-72: "errors" in data
GraphQLError ==
    \E r \in Responses, now \in ClockValues :
        /\ Post(r)
        /\ PastRateLimitCheck(r, now)
        /\ r.status # HTTP_FORBIDDEN
        /\ ~RaisesForStatus(r)
        /\ r.errors
        /\ Raise("GraphQLError")
        /\ RequestFrame

\* lines 69-74: return data["data"]; the payload is what the API holds for
\* the request: the page after the cursor sent, or the commit contributions
ServerPage(i) ==
    [nodes |-> server_pages[i],
     pageInfo |-> [hasNextPage |-> i < Len(server_pages),
                   endCursor |-> IF i < Len(server_pages) \/ server_pages[i] # <<>>
                                 THEN Some(i) ELSE None]]

SearchPayload(aft) == [search |-> ServerPage(IF aft = None THEN 1 ELSE aft[1] + 1)]

CommitsPayload ==
    [user |-> [contributionsCollection |->
                  [commitContributionsByRepository |-> server_commits]]]

ReturnData ==
    \E r \in Responses, now \in ClockValues :
        /\ Post(r)
        /\ PastRateLimitCheck(r, now)
        /\ r.status # HTTP_FORBIDDEN
        /\ ~RaisesForStatus(r)
        /\ ~r.errors
        /\ outcome' = "data"
        /\ IF pc = "prs_request"
           THEN /\ data' = Some(SearchPayload(after))
                /\ pc' = "prs_page"
           ELSE /\ data' = Some(CommitsPayload)
                /\ pc' = "commits_data"
        /\ UNCHANGED <<attempt, wait_time>>
        /\ RequestFrame

make_graphql_request ==
    \/ RateLimitWaitReset
    \/ RateLimitBackoff
    \/ ForbiddenWait
    \/ HttpError
    \/ GraphQLError
    \/ ReturnData

\* entry of make_graphql_request: nothing posted, nothing slept yet
CallStart ==
    /\ attempt' = 0
    /\ requests' = 0
    /\ response' = None
    /\ wait_time' = 0
    /\ outcome' = "pending"
    /\ data' = None

\* the caller has the payload: the frame of make_graphql_request is gone
CallEnd ==
    /\ attempt' = 0
    /\ requests' = 0
    /\ response' = None
    /\ wait_time' = 0
    /\ outcome' = "returned"
    /\ data' = None

(***************************************************************************)
(* Repositories, pull requests and commit contributions as the API         *)
(* returns them                                                            *)
(***************************************************************************)
RepoKey(repo) == <<repo.owner.login, repo.name>>

RepoUrl(owner, name) == <<"https://github.com/", owner, "/", name>>

Repository(owner, name, fork, desc) ==
    [name |-> name, url |-> RepoUrl(owner, name), description |-> desc,
     isFork |-> fork, owner |-> [login |-> owner]]

Iso(t) == Some([t |-> t, z |-> "Z"])

PullRequest(title, repo, merged, draft) ==
    [title |-> <<title>>, url |-> repo.url \o <<"/pull/", title>>,
     mergedAt |-> merged, isDraft |-> draft, repository |-> repo]

CommitRepo(repo, private, branch, count, nodes) ==
    [repository |-> [name |-> repo.name, url |-> repo.url,
                     description |-> repo.description, isFork |-> repo.isFork,
                     isPrivate |-> private, defaultBranchRef |-> branch,
                     owner |-> repo.owner],
     contributions |-> [totalCount |-> count, nodes |-> nodes]]

\* datetime.fromisoformat(s.replace("Z", "+00:00")).replace(tzinfo=None)
ParseNaive(iso) == iso.t

(***************************************************************************)
(* fetch_merged_prs                                                        *)
(***************************************************************************)
\* mutant: draft nodes are kept
RECURSIVE KeptNodesAndDrafts(_)
KeptNodesAndDrafts(nodes) ==
    IF nodes = <<>> THEN <<>>
    ELSE (IF Head(nodes) # None THEN <<Head(nodes)[1]>> ELSE <<>>)
         \o KeptNodesAndDrafts(Tail(nodes))

\* lines 125-127: keep the nodes that are not null and not draft
RECURSIVE KeptNodes(_)
KeptNodes(nodes) ==
    IF nodes = <<>> THEN <<>>
    ELSE LET node == Head(nodes)
         IN  (IF node # None /\ ~node[1].isDraft THEN <<node[1]>> ELSE <<>>)
             \o KeptNodes(Tail(nodes))

FetchFrame ==
    UNCHANGED <<username, token, readme, server_pages, server_commits, stars,
                repo_data, contribution_content, runs, start_readme, prev_readme>>

\* lines 113-119: while has_next_page: build the variables, call the API
RequestPage ==
    /\ pc = "prs_loop"
    /\ has_next_page
    /\ after' = (IF cursor # None THEN cursor ELSE None)
    /\ after_sent' = Append(after_sent, after')
    /\ CallStart
    /\ pc' = "prs_request"
    /\ UNCHANGED <<all_prs, cursor, has_next_page, repos_with_commits>>
    /\ FetchFrame

\* lines 120-127: read pageInfo, keep the nodes
ProcessPage ==
    /\ pc = "prs_page"
    /\ LET search_result == data[1].search
           page_info == search_result.pageInfo
       IN  /\ has_next_page' = page_info.hasNextPage
           /\ cursor' = page_info.endCursor
           /\ all_prs' = all_prs \o KeptNodes(search_result.nodes)
    /\ pc' = "prs_loop"
    /\ CallEnd
    /\ UNCHANGED <<after, after_sent, repos_with_commits>>
    /\ FetchFrame

\* line 129 and main lines 378-382: return all_prs, then
\* fetch_repositories_with_commits calls the API
ReturnPrs ==
    /\ pc = "prs_loop"
    /\ ~has_next_page
    /\ CallStart
    /\ pc' = "commits_request"
    /\ UNCHANGED <<after, after_sent, all_prs, cursor, has_next_page,
                   repos_with_commits>>
    /\ FetchFrame

(***************************************************************************)
(* fetch_repositories_with_commits                                         *)
(***************************************************************************)
\* index of key in an insertion-ordered dict, 0 when absent
KeyIndex(dict, key) ==
    IF \E i \in 1..Len(dict) : dict[i].key = key
    THEN CHOOSE i \in 1..Len(dict) : dict[i].key = key
    ELSE 0

\* dict[key] = value: a new key goes last, an old key keeps its place
DictSet(dict, value) ==
    LET i == KeyIndex(dict, value.key)
    IN  IF i = 0 THEN Append(dict, value) ELSE [dict EXCEPT ![i] = value]

\* lines 191-199
LatestCommitDate(contributions) ==
    IF contributions.nodes = <<>> THEN None
    ELSE LET latest_occurred == contributions.nodes[1].occurredAt
         IN  IF latest_occurred = None THEN None
             ELSE Some(ParseNaive(latest_occurred[1]))

\* lines 176-205, one iteration of the loop
CommitRepoStep(dict, entry) ==
    LET repo == entry.repository
    IN  IF repo.isPrivate THEN dict
        ELSE IF repo.defaultBranchRef # None /\ entry.contributions.totalCount > 0
        THEN DictSet(dict, [key |-> RepoKey(repo), repository |-> repo,
                            latest_commit_date |-> LatestCommitDate(entry.contributions)])
        ELSE dict

RECURSIVE CommitRepoLoop(_, _)
CommitRepoLoop(dict, entries) ==
    IF entries = <<>> THEN dict
    ELSE CommitRepoLoop(CommitRepoStep(dict, Head(entries)), Tail(entries))

\* lines 173-207
ProcessCommits ==
    /\ pc = "commits_data"
    /\ LET contributions == data[1].user.contributionsCollection
           commit_repos == contributions.commitContributionsByRepository
       IN  repos_with_commits' = CommitRepoLoop(<<>>, commit_repos)
    /\ pc' = "aggregate"
    /\ CallEnd
    /\ UNCHANGED <<after, after_sent, all_prs, cursor, has_next_page>>
    /\ FetchFrame

(***************************************************************************)
(* filter_and_group_contributions                                          *)
(***************************************************************************)
DatetimeMin == 0

\* lines 214-222: the defaultdict factory
DefaultRecord(key) ==
    [key |-> key, name |-> <<>>, url |-> <<>>, description |-> <<>>,
     is_fork |-> FALSE, prs |-> <<>>, has_commits |-> FALSE,
     latest_activity |-> None]

\* repo_data[repo_key]: a missing key is created with the default record
Touch(dict, key) ==
    IF KeyIndex(dict, key) = 0 THEN Append(dict, DefaultRecord(key)) ELSE dict

\* repo.get("description") or ""
DescriptionOrEmpty(repo) ==
    IF repo.description = None THEN <<>> ELSE repo.description[1]

\* lines 247-249
LaterActivity(current_latest, date) ==
    IF current_latest = None \/ date > current_latest[1]
    THEN Some(date) ELSE current_latest

\* lines 226-249, one iteration of the loop over prs
PrStep(dict, pr) ==
    LET repo == pr.repository
        touched == Touch(dict, RepoKey(repo))
        i == KeyIndex(touched, RepoKey(repo))
        old == touched[i]
        summary == [title |-> pr.title, url |-> pr.url, merged_at |-> pr.mergedAt]
    IN  [touched EXCEPT ![i] =
            [old EXCEPT !.name = <<repo.name>>,
                        !.url = repo.url,
                        !.description = DescriptionOrEmpty(repo),
                        !.is_fork = repo.isFork,
                        !.prs = Append(old.prs, summary),
                        !.latest_activity =
                            IF pr.mergedAt # None
                            THEN LaterActivity(old.latest_activity,
                                               ParseNaive(pr.mergedAt[1]))
                            ELSE old.latest_activity]]

RECURSIVE PrLoop(_, _)
PrLoop(dict, prs) ==
    IF prs = <<>> THEN dict ELSE PrLoop(PrStep(dict, Head(prs)), Tail(prs))

\* lines 266-271: the repository already has PRs
MergeCommits(old, entry) ==
    IF entry.latest_commit_date # None
    THEN [old EXCEPT !.latest_activity =
                         LaterActivity(old.latest_activity, entry.latest_commit_date[1]),
                     !.has_commits = TRUE]
    ELSE old

\* lines 253-271, one iteration of the loop over repos_with_commits
CommitStep(dict, entry) ==
    LET repo == entry.repository
        i == KeyIndex(dict, entry.key)
    IN  IF i = 0
        THEN Append(dict,
                 [DefaultRecord(entry.key) EXCEPT
                     !.name = <<repo.name>>,
                     !.url = repo.url,
                     !.description = DescriptionOrEmpty(repo),
                     !.is_fork = repo.isFork,
                     !.has_commits = TRUE,
                     !.latest_activity =
                         IF entry.latest_commit_date # None
                         THEN entry.latest_commit_date ELSE Some(DatetimeMin)])
        ELSE [dict EXCEPT ![i] = MergeCommits(dict[i], entry)]

RECURSIVE CommitLoop(_, _)
CommitLoop(dict, entries) ==
    IF entries = <<>> THEN dict
    ELSE CommitLoop(CommitStep(dict, Head(entries)), Tail(entries))

\* x["merged_at"] or "": ISO strings of one format order as their times do,
\* and the empty string comes before all of them
MergedAtKey(summary) ==
    IF summary.merged_at = None THEN 0 ELSE summary.merged_at[1].t

\* line 282
SortPrs(prs) ==
    LET decorated == [i \in 1..Len(prs) |-> [k |-> MergedAtKey(prs[i]), v |-> prs[i]]]
        sorted == SortDesc(decorated)
    IN  [i \in 1..Len(prs) |-> sorted[i].v]

\* mutant: a fork is kept for its direct commits
KeptForksWithCommits(record) == ~(record.is_fork /\ ~record.has_commits)

\* mutant: star thresholds, 1000 with merged PRs and 5000 without
KeptByStars(record) ==
    /\ ~(record.is_fork /\ record.prs = <<>>)
    /\ stars[record.key] >= (IF record.prs # <<>> THEN 1000 ELSE 5000)

\* mutant: repositories of the queried user are skipped
KeptUnlessOwn(record) ==
    /\ ~(record.is_fork /\ record.prs = <<>>)
    /\ record.key[1] # username[1]

\* line 277, negated: the record is not skipped
Kept(record) == ~(record.is_fork /\ record.prs = <<>>)

\* lines 275-286
RECURSIVE FilterLoop(_)
FilterLoop(dict) ==
    IF dict = <<>> THEN <<>>
    ELSE LET record == Head(dict)
         IN  (IF Kept(record)
              THEN <<[record EXCEPT !.prs = SortPrs(record.prs)]>>
              ELSE <<>>)
             \o FilterLoop(Tail(dict))

filter_and_group_contributions(prs, commits) ==
    FilterLoop(CommitLoop(PrLoop(<<>>, prs), commits))

(***************************************************************************)
(* generate_readme                                                         *)
(***************************************************************************)
MAX_PR_DISPLAY == 3

DESCRIPTION_MAX == 100

DESCRIPTION_CUT == 97

TITLE_MAX == 60

TITLE_CUT == 57

NL == "\n"

HEADING == "## Open Source Contributions"

\* text[:cut] + "..." when len(text) > limit
Truncate(text, limit, cut) ==
    IF Len(text) > limit THEN SubSeq(text, 1, cut) \o <<"...">> ELSE text

\* data["latest_activity"] or datetime.min
ActivityKey(record) ==
    IF record.latest_activity = None THEN DatetimeMin ELSE record.latest_activity[1]

\* lines 292-296
SortRepos(dict) ==
    LET decorated == [i \in 1..Len(dict) |-> [k |-> ActivityKey(dict[i]), v |-> dict[i]]]
        sorted == SortDesc(decorated)
    IN  [i \in 1..Len(dict) |-> sorted[i].v]

RepoLink(record) == <<"**[">> \o record.name \o <<"](">> \o record.url \o <<")**">>

DescriptionOrDefault(record) ==
    IF record.description # <<>> THEN record.description ELSE <<"No description">>

\* lines 312-315
SummaryLine(record) ==
    <<"- ">> \o RepoLink(record) \o <<": ">> \o DescriptionOrDefault(record)

\* lines 333-338
ContributionType(record) ==
    LET types == (IF record.prs # <<>> THEN <<<<"PR">>>> ELSE <<>>)
                 \o (IF record.has_commits THEN <<<<"Commit">>>> ELSE <<>>)
    IN  IF types # <<>> THEN Join(types, <<" / ">>) ELSE <<"Unknown">>

\* lines 341-351
PrLink(pr) ==
    <<"[">> \o Truncate(pr.title, TITLE_MAX, TITLE_CUT) \o <<"](">> \o pr.url \o <<")">>

Contributions(record) ==
    LET shown == SubSeq(record.prs, 1, IF Len(record.prs) < MAX_PR_DISPLAY
                                       THEN Len(record.prs) ELSE MAX_PR_DISPLAY)
        links == [i \in 1..Len(shown) |-> PrLink(shown[i])]
        more == IF Len(record.prs) > MAX_PR_DISPLAY
                THEN <<<<"*+", ToString(Len(record.prs) - MAX_PR_DISPLAY),
                         " more merged PRs*">>>>
                ELSE <<>>
        contributions == links \o more
    IN  IF contributions # <<>> THEN Join(contributions, <<"<br>">>)
        ELSE <<"Direct commits">>

\* lines 325-355
TableRow(record) ==
    <<"| ">> \o RepoLink(record)
    \o <<" | ">> \o Truncate(DescriptionOrDefault(record), DESCRIPTION_MAX, DESCRIPTION_CUT)
    \o <<" | ">> \o ContributionType(record)
    \o <<" | ">> \o Contributions(record) \o <<" |">>

generate_readme(dict) ==
    LET sorted_repos == SortRepos(dict)
        head == << <<HEADING>>, <<>>, <<"A collection of my contributions">>, <<>>,
                   <<"### Summary">>, <<>> >>
        summary == [i \in 1..Len(sorted_repos) |-> SummaryLine(sorted_repos[i])]
        table == << <<>>, <<"### Detailed Contributions">>, <<>>,
                    <<"| Repository | Description | Type | Contributions |">>,
                    <<"|:---|:---|:---:|:---|">> >>
        rows == [i \in 1..Len(sorted_repos) |-> TableRow(sorted_repos[i])]
    IN  IF sorted_repos = <<>>
        THEN Join(head \o << <<"No contributions found.">> >>, <<NL>>)
        ELSE Join(head \o summary \o table \o rows, <<NL>>)

(***************************************************************************)
(* main                                                                    *)
(***************************************************************************)
START == "<!-- START_CONTRIBUTIONS -->"

END == "<!-- END_CONTRIBUTIONS -->"

DefaultHeader == <<"## Hi there", NL, NL, "Welcome to my profile!">>

Whitespace == {NL, " "}

\* str.strip()
RECURSIVE LStrip(_)
LStrip(text) ==
    IF text # <<>> /\ Head(text) \in Whitespace THEN LStrip(Tail(text)) ELSE text

RECURSIVE RStrip(_)
RStrip(text) ==
    IF text # <<>> /\ text[Len(text)] \in Whitespace
    THEN RStrip(SubSeq(text, 1, Len(text) - 1)) ELSE text

Strip(text) == RStrip(LStrip(text))

\* marker in content
Contains(text, marker) == \E i \in 1..Len(text) : text[i] = marker

\* content.split(marker)[0]
BeforeFirst(text, marker) ==
    IF Contains(text, marker)
    THEN LET i == CHOOSE j \in 1..Len(text) :
                      text[j] = marker /\ \A k \in 1..(j - 1) : text[k] # marker
         IN  SubSeq(text, 1, i - 1)
    ELSE text

\* mutant: the old generated section is never cut off
HeaderKeepsAll(file) ==
    IF file = None THEN DefaultHeader ELSE Strip(file[1])

\* lines 394-406
HeaderContent(file) ==
    IF file = None THEN DefaultHeader
    ELSE LET content == file[1]
         IN  IF Contains(content, START) THEN Strip(BeforeFirst(content, START))
             ELSE IF Contains(content, HEADING) THEN Strip(BeforeFirst(content, HEADING))
             ELSE Strip(content)

\* line 408
FullReadme(header_content, content) ==
    header_content \o <<NL, NL, START, NL>> \o content \o <<NL, END, NL>>

MainFrame ==
    UNCHANGED <<username, token, server_pages, server_commits, stars, attempt,
                requests, response, wait_time, outcome, after, after_sent, data,
                start_readme, prev_readme>>

\* mutant: README.md is opened for writing before anything is fetched
CheckEnvTruncating ==
    /\ pc = "main"
    /\ IF username = None \/ token = None
       THEN pc' = "exit"
       ELSE pc' = "prs_loop"
    /\ readme' = Some(<<>>)
    /\ all_prs' = <<>>
    /\ cursor' = None
    /\ has_next_page' = TRUE
    /\ UNCHANGED <<repos_with_commits, repo_data, contribution_content, runs>>
    /\ MainFrame

\* lines 362-371: a missing variable ends the run with sys.exit(1)
CheckEnv ==
    /\ pc = "main"
    /\ IF username = None \/ token = None
       THEN pc' = "exit"
       ELSE pc' = "prs_loop"
    /\ all_prs' = <<>>
    /\ cursor' = None
    /\ has_next_page' = TRUE
    /\ UNCHANGED <<readme, repos_with_commits, repo_data, contribution_content, runs>>
    /\ MainFrame

\* line 387
Aggregate ==
    /\ pc = "aggregate"
    /\ repo_data' = filter_and_group_contributions(all_prs, repos_with_commits)
    /\ pc' = "render"
    /\ UNCHANGED <<readme, all_prs, cursor, has_next_page, repos_with_commits,
                   contribution_content, runs>>
    /\ MainFrame

\* line 391
Render ==
    /\ pc = "render"
    /\ contribution_content' = generate_readme(repo_data)
    /\ pc' = "write"
    /\ UNCHANGED <<readme, all_prs, cursor, has_next_page, repos_with_commits,
                   repo_data, runs>>
    /\ MainFrame

\* lines 394-414
WriteReadme ==
    /\ pc = "write"
    /\ readme' = Some(FullReadme(HeaderContent(readme), contribution_content))
    /\ runs' = runs + 1
    /\ pc' = "done"
    /\ UNCHANGED <<all_prs, cursor, has_next_page, repos_with_commits, repo_data,
                   contribution_content>>
    /\ MainFrame

\* a later run of main on the README the previous run wrote, the API
\* answering as before
Rerun ==
    /\ pc = "done"
    /\ runs < MaxRuns
    /\ pc' = "aggregate"
    /\ prev_readme' = readme
    /\ start_readme' = readme
    /\ repo_data' = <<>>
    /\ contribution_content' = <<>>
    /\ UNCHANGED <<username, token, readme, server_pages, server_commits, stars,
                   attempt, requests, response, wait_time, outcome, after,
                   after_sent, data, all_prs, cursor, has_next_page,
                   repos_with_commits, runs>>

(***************************************************************************)
(* What the API holds                                                      *)
(***************************************************************************)
USER == "alice"

Widget == Repository("acme", "widget", FALSE, Some(<<"w">>))

OwnFork == Repository(USER, "widget", TRUE, None)

Keys == {RepoKey(Widget), RepoKey(OwnFork)}

StarCounts == {999, 1000, 4999, 5000}

PrA == PullRequest("a", Widget, Iso(2), FALSE)

PrB == PullRequest("b", OwnFork, None, FALSE)

PrDraft == PullRequest("wip", Widget, Iso(1), TRUE)

\* result pages of the search: empty, with a null node, with a draft
PageCatalog ==
    { <<>>, <<None, Some(PrA)>>, <<Some(PrDraft), Some(PrB)>>, <<Some(PrB), Some(PrA)>> }

OnePerCommit(t) == <<[occurredAt |-> t]>>

Branch == Some([name |-> "main"])

WidgetCommits == CommitRepo(Widget, FALSE, Branch, 1, OnePerCommit(Iso(3)))

Environments ==
    { <<Some(USER), Some("token")>>, <<None, Some("token")>>, <<Some(USER), None>> }

GeneratedBefore == <<"notes", NL, NL, START, NL, HEADING, NL, "old", NL, END, NL>>

InitCall ==
    /\ attempt = 0
    /\ requests = 0
    /\ response = None
    /\ wait_time = 0
    /\ after = None
    /\ after_sent = <<>>

InitLocals ==
    /\ cursor = None
    /\ has_next_page = TRUE
    /\ repo_data = <<>>
    /\ contribution_content = <<>>
    /\ runs = 0
    /\ start_readme = readme
    /\ prev_readme = None

\* one run of main from its first line
Init ==
    /\ pc = "main"
    /\ \E env \in Environments : username = env[1] /\ token = env[2]
    /\ readme \in {None, Some(GeneratedBefore)}
    /\ server_pages \in SeqsUpTo(PageCatalog, MaxPages) \ {<<>>}
    /\ server_commits \in {<<>>, <<WidgetCommits>>}
    /\ stars = [k \in Keys |-> 1000]
    /\ InitCall
    /\ outcome = "pending"
    /\ data = None
    /\ all_prs = <<>>
    /\ repos_with_commits = <<>>
    /\ InitLocals

Next ==
    \/ CheckEnv
    \/ RequestPage
    \/ make_graphql_request
    \/ ProcessPage
    \/ ReturnPrs
    \/ ProcessCommits
    \/ Aggregate
    \/ Render
    \/ WriteReadme

Spec == Init /\ [][Next]_vars

(***************************************************************************)
(* One call of make_graphql_request: the first search request              *)
(***************************************************************************)
InitRequest ==
    /\ pc = "prs_request"
    /\ username = Some(USER)
    /\ token = Some("token")
    /\ readme \in {None, Some(GeneratedBefore)}
    /\ server_pages \in {<<page>> : page \in PageCatalog}
    /\ server_commits = <<WidgetCommits>>
    /\ stars = [k \in Keys |-> 1000]
    /\ attempt = 0
    /\ requests = 0
    /\ response = None
    /\ wait_time = 0
    /\ after = None
    /\ after_sent = <<None>>
    /\ outcome = "pending"
    /\ data = None
    /\ all_prs = <<>>
    /\ repos_with_commits = <<>>
    /\ InitLocals

SpecRequest == InitRequest /\ [][make_graphql_request]_vars

\* requests.post and time.sleep return: an attempt that can be made is made
FairRequest == SpecRequest /\ WF_vars(make_graphql_request)

(***************************************************************************)
(* The aggregator on every fetch result within the bounds                  *)
(***************************************************************************)
Own == Repository(USER, "widget", FALSE, None)

\* what fetch_merged_prs can return: no null node, no draft
AggPRs ==
    { PrA,
      PullRequest("a2", Widget, None, FALSE),
      PrB,
      PullRequest("c", Own, Iso(4), FALSE) }

\* entries of commitContributionsByRepository
AggCommits ==
    { WidgetCommits,
      CommitRepo(Widget, FALSE, Branch, 1, <<>>),
      CommitRepo(OwnFork, FALSE, Branch, 2, OnePerCommit(Iso(1))),
      CommitRepo(Own, FALSE, Branch, 1, OnePerCommit(None)),
      CommitRepo(Widget, TRUE, Branch, 1, OnePerCommit(Iso(5))),
      CommitRepo(Widget, FALSE, None, 1, OnePerCommit(Iso(5))),
      CommitRepo(Widget, FALSE, Branch, 0, <<>>) }

\* main at line 382, the API having answered both fetches
InitAgg ==
    /\ pc = "commits_data"
    /\ username = Some(USER)
    /\ token = Some("token")
    /\ readme = None
    /\ server_pages = <<>>
    /\ server_commits \in SeqsUpTo(AggCommits, MaxCommitRepos)
    /\ stars \in [Keys -> StarCounts]
    /\ InitCall
    /\ outcome = "data"
    /\ data = Some(CommitsPayload)
    /\ all_prs \in SeqsUpTo(AggPRs, MaxPRs)
    /\ repos_with_commits = <<>>
    /\ InitLocals

NextAgg ==
    \/ ProcessCommits
    \/ Aggregate

SpecAgg == InitAgg /\ [][NextAgg]_vars

(***************************************************************************)
(* main run again on the README it wrote                                   *)
(***************************************************************************)
ReadmeTokens == {"x", NL, START, END, HEADING}

\* repositories whose description holds a sentinel marker
Marked == Repository("acme", "marked", FALSE, Some(<<START, "x", END>>))

RerunPRs ==
    { PrA,
      PullRequest("m", Marked, Iso(3), FALSE),
      PullRequest("c", Own, None, FALSE) }

\* main at line 387, the API having answered both fetches
InitRerun ==
    /\ pc = "aggregate"
    /\ username = Some(USER)
    /\ token = Some("token")
    /\ readme \in {None} \cup {Some(text) : text \in SeqsUpTo(ReadmeTokens, MaxReadmeLen)}
    /\ server_pages = <<>>
    /\ server_commits \in {<<>>, <<WidgetCommits>>}
    /\ stars = [k \in Keys |-> 1000]
    /\ InitCall
    /\ outcome = "returned"
    /\ data = None
    /\ all_prs \in SeqsUpTo(RerunPRs, MaxPRs)
    /\ repos_with_commits = CommitRepoLoop(<<>>, server_commits)
    /\ InitLocals

NextRerun ==
    \/ Aggregate
    \/ Render
    \/ WriteReadme
    \/ Rerun

SpecRerun == InitRerun /\ [][NextRerun]_vars

(***************************************************************************)
(* Properties                                                              *)
(***************************************************************************)
Aggregated == pc \in {"render", "write", "done"}

InResult(key) == \E i \in 1..Len(repo_data) : repo_data[i].key = key

PrKeys == {RepoKey(all_prs[i].repository) : i \in 1..Len(all_prs)}

CommitKeys == {repos_with_commits[i].key : i \in 1..Len(repos_with_commits)}

CommitFork(key) ==
    \E i \in 1..Len(repos_with_commits) :
        repos_with_commits[i].key = key /\ repos_with_commits[i].repository.isFork

\* reached through a merged PR, or through direct commits without being a fork
Qualifies(key) ==
    \/ key \in PrKeys
    \/ key \in CommitKeys /\ ~CommitFork(key)

\* C1: every repository of the result that is a fork has a non-empty prs
\* list, and a fork reached only through direct commits is not in the result.
C1_ForksNeedPrs ==
    Aggregated =>
        /\ \A i \in 1..Len(repo_data) :
               repo_data[i].is_fork => repo_data[i].prs # <<>>
        /\ \A key \in CommitKeys \ PrKeys : CommitFork(key) => ~InResult(key)

C1_Witness ==
    /\ Aggregated
    /\ \E key \in CommitKeys \ PrKeys : CommitFork(key) /\ ~InResult(key)
    /\ \E i \in 1..Len(repo_data) : repo_data[i].prs = <<>> /\ repo_data[i].has_commits

\* C2: a repository key that occurs in the PR list and in the commit mapping
\* has exactly one entry in the result, with has_commits = true and a
\* non-empty prs list.
C2_Deduplicated ==
    Aggregated =>
        \A key \in PrKeys \cap CommitKeys :
            /\ Cardinality({i \in 1..Len(repo_data) : repo_data[i].key = key}) = 1
            /\ \A i \in 1..Len(repo_data) :
                   repo_data[i].key = key =>
                       repo_data[i].has_commits /\ repo_data[i].prs # <<>>

\* C3 as stated: a repository reached through merged PRs is in the result
\* only if it has at least 1000 stars, one reached only through direct
\* commits only if it has at least 5000.
C3_StarThresholds ==
    Aggregated =>
        \A i \in 1..Len(repo_data) :
            IF repo_data[i].key \in PrKeys
            THEN stars[repo_data[i].key] >= 1000
            ELSE stars[repo_data[i].key] >= 5000

\* C3 amended: the aggregator applies no star-count filter.  Whatever its
\* star count, a repository reached through merged PRs is in the result, and
\* one reached only through direct commits is in the result exactly when it
\* is not a fork.
C3_NoStarFilter ==
    Aggregated =>
        \A key \in Keys, n \in StarCounts :
            stars[key] = n =>
                /\ key \in PrKeys => InResult(key)
                /\ key \in CommitKeys \ PrKeys => (InResult(key) <=> ~CommitFork(key))

C3_Witness ==
    /\ Aggregated
    /\ \E key \in PrKeys : stars[key] = 999 /\ InResult(key)
    /\ \E key \in CommitKeys \ PrKeys : stars[key] = 4999 /\ InResult(key)

\* C4 as stated: no repository whose owner login equals the username is in
\* the result.
C4_OwnerExcluded ==
    Aggregated =>
        \A i \in 1..Len(repo_data) : repo_data[i].key[1] # username[1]

\* C4 amended: a repository owned by the queried user is treated as any
\* other.  It is in the result exactly when it was reached through a merged
\* PR, or through direct commits without being a fork.
C4_OwnerTreatedAlike ==
    Aggregated =>
        \A key \in Keys :
            key[1] = username[1] => (InResult(key) <=> Qualifies(key))

C4_Witness ==
    /\ Aggregated
    /\ \E i \in 1..Len(repo_data) :
           /\ repo_data[i].key[1] = username[1]
           /\ repo_data[i].prs = <<>>
    /\ \E key \in PrKeys : key[1] # username[1]

Failed == pc \in {"exit", "raised"}

\* C5: README.md is written only when both fetches, the aggregation and the
\* rendering are done, and a run that ends on a missing environment variable,
\* an HTTP error, a GraphQL error or retry exhaustion leaves README.md as it
\* was when the run started.
C5_NoPartialReadme ==
    /\ (runs > 0 \/ readme # start_readme) =>
           /\ pc = "done"
           /\ ~has_next_page
           /\ outcome = "returned"
           /\ readme = Some(FullReadme(HeaderContent(start_readme), contribution_content))
    /\ Failed => readme = start_readme /\ runs = 0

C5_Witness ==
    /\ pc = "raised"
    /\ outcome = "GraphQLError"
    /\ Len(after_sent) = 2
    /\ all_prs # <<>>
    /\ readme = Some(GeneratedBefore)

CallEnded == pc \in {"raised", "prs_page", "commits_data"}

\* C6: a call of make_graphql_request posts at most 3 requests and always
\* ends, in exactly one of: the data payload, an HTTP error, a GraphQL error,
\* "Max retries exceeded"; the last exactly when all 3 responses led to a
\* wait-and-retry.
C6_RetryCeiling ==
    /\ [](/\ requests <= 3
          /\ InRequest => outcome = "pending"
          /\ CallEnded =>
                 /\ outcome \in {"data", "HTTPError", "GraphQLError", "MaxRetries"}
                 /\ outcome = "MaxRetries" <=> (attempt = 3 /\ requests = 3))
    /\ (InRequest ~> CallEnded)

C6_Witness ==
    /\ pc = "raised"
    /\ outcome = "MaxRetries"
    /\ requests = 3
    /\ response[1].status = 403

PrsReturned == pc \notin {"main", "exit"} /\ ~has_next_page

IsMergedPr(node) == node # None /\ ~node[1].isDraft

\* C7: fetch_merged_prs requests the pages one after another, the first
\* without cursor and each later one with the endCursor of the page before
\* it, stops after the first page with hasNextPage = false, and returns in
\* page order the nodes of all pages that are not null and not draft.
C7_AllPagesFetched ==
    /\ Len(after_sent) <= Len(server_pages)
    /\ \A i \in 1..Len(after_sent) :
           after_sent[i] = IF i = 1 THEN None ELSE ServerPage(i - 1).pageInfo.endCursor
    /\ PrsReturned =>
           /\ Len(after_sent) = Len(server_pages)
           /\ LET kept == SelectSeq(Concat(server_pages), IsMergedPr)
              IN  /\ Len(all_prs) = Len(kept)
                  /\ \A i \in 1..Len(kept) : all_prs[i] = kept[i][1]

C7_Witness ==
    /\ PrsReturned
    /\ Len(server_pages) = 2
    /\ server_pages[1] = <<Some(PrDraft), Some(PrB)>>
    /\ server_pages[2] = <<None, Some(PrA)>>
    /\ all_prs = <<PrB, PrA>>

\* the text between the first START marker and the last END marker
Between(text) ==
    LET first == CHOOSE i \in 1..Len(text) :
                     text[i] = START /\ \A k \in 1..(i - 1) : text[k] # START
        last == CHOOSE i \in 1..Len(text) :
                    text[i] = END /\ \A k \in (i + 1)..Len(text) : text[k] # END
    IN  SubSeq(text, first + 1, last - 1)

\* C8: a run of main on the README the run before it wrote, with the same
\* fetch results, writes the same text between the START and END markers.
C8_Idempotent ==
    (pc = "done" /\ runs >= 2) => Between(readme[1]) = Between(prev_readme[1])

C8_Witness ==
    /\ pc = "done"
    /\ runs = 2
    /\ Len(repo_data) = 2
    /\ Contains(contribution_content, START)
    /\ Contains(prev_readme[1], "x")

\* a response with an unsuccessful status other than 403
OtherError(r) == r.status >= 400 /\ r.status # 403

\* C9 as stated: a response with an unsuccessful status other than 403 makes
\* the call fail on that response, without sleeping and without another
\* request, whatever its rate-limit headers.
C9_FailsImmediately ==
    (response # None /\ OtherError(response[1])) =>
        /\ pc = "raised"
        /\ outcome = "HTTPError"
        /\ attempt = requests - 1

\* C9 amended: a response with an unsuccessful status other than 403 whose
\* X-RateLimit-Remaining header is absent or at least 10 makes the call fail
\* on that response, without sleeping and without another request, whatever
\* its X-RateLimit-Reset header.
C9_FailsUnlessRateLimited ==
    (/\ response # None
     /\ OtherError(response[1])
     /\ (response[1].remaining = None \/ response[1].remaining[1] >= 10)) =>
        /\ pc = "raised"
        /\ outcome = "HTTPError"
        /\ attempt = requests - 1

C9_Witness ==
    /\ pc = "raised"
    /\ outcome = "HTTPError"
    /\ response # None
    /\ response[1].status = 404
    /\ response[1].remaining = Some(10)
    /\ response[1].reset # None
    /\ requests = 2

\* the request just posted was answered with a low rate limit and a reset time
LowWithReset ==
    /\ requests' = requests + 1
    /\ response'[1].remaining # None
    /\ response'[1].remaining[1] < 10
    /\ response'[1].reset # None

\* C10 as stated: a response with X-RateLimit-Remaining below 10 and a reset
\* time makes the call sleep and retry without using up an attempt.
C10_WaitNotCounted ==
    [][LowWithReset => attempt' = attempt /\ pc' = pc]_vars

\* C10 amended: such a response makes the call sleep until the reset time
\* plus 1 second (at least 1 second) and uses up one of the 3 attempts; the
\* call retries the same request while attempts are left and fails with
\* "Max retries exceeded" once the third attempt is used up.
C10_WaitUsesAttempt ==
    [][LowWithReset =>
          /\ attempt' = attempt + 1
          /\ \E now \in ClockValues :
                 /\ wait_time' >= response'[1].reset[1] - now + 1
                 /\ wait_time' >= 1
                 /\ wait_time' \in {response'[1].reset[1] - now + 1, 1}
          /\ IF attempt' < 3
             THEN pc' = pc /\ after' = after
             ELSE pc' = "raised" /\ outcome' = "MaxRetries"]_vars

C10_Witness ==
    /\ pc = "raised"
    /\ outcome = "MaxRetries"
    /\ attempt = 3
    /\ wait_time = 3
    /\ response[1].remaining = Some(9)
    /\ response[1].reset = Some(5)

====
